---- MODULE Spec2Model ----
(***************************************************************************)
(* A model of vec-cell (src/src/lib.rs): a vector whose elements are       *)
(* borrowed one by one at run time.  The state is the VecCell's four       *)
(* fields, the set of guards (Ref / RefMut) that are alive, and the        *)
(* outcome of the last call.  Indices are 0-based as in the source; the    *)
(* TLA+ sequences are 1-based, so element `index` is elems[index + 1].     *)
(***************************************************************************)
EXTENDS Integers, Sequences, FiniteSets

\* Bounds of the model.
MaxLen == 2
MaxVal == 2
MaxGuards == 2

Values == 1..MaxVal
Indices == 0..MaxLen
GuardIds == 1..MaxGuards

VARIABLES
    elems,                  \* VecCell::elems
    borrows,                \* VecCell::borrows
    immutable_borrow_count, \* VecCell::immutable_borrow_count
    mutable_borrow_count,   \* VecCell::mutable_borrow_count
    guards,                 \* the Ref and RefMut values that are alive
    ret                     \* the last call and what it returned

vars == <<elems, borrows, immutable_borrow_count, mutable_borrow_count, guards, ret>>

\* The fields of the VecCell and the guards borrowed from it.
cell == <<elems, borrows, immutable_borrow_count, mutable_borrow_count, guards>>

BorrowState == {"None", "Immutable", "Mutable"}

\* All sequences over S of length at most n.
SeqUpTo(S, n) == UNION {[1..k -> S] : k \in 0..n}

\* What a call returned: result is "Ok" or the Error (for pop, "Some" or
\* "None"), yield the values that went in or out (the pushed or stored value,
\* the popped element, the iterated elements, the dereferenced element), guard
\* the id of the guard returned or used (0 for none).
Return(op, index, result, yield, guard) ==
    [op |-> op, index |-> index, result |-> result, yield |-> yield, guard |-> guard]

\* Ref(UnsafeRef { index, vec }) and RefMut(UnsafeRef { index, vec }).
Guard(id, kind, index) == [id |-> id, kind |-> kind, index |-> index]

\* The id given to the next guard: the smallest one not alive.
FreshId == CHOOSE n \in GuardIds :
    /\ \A g \in guards : g.id # n
    /\ \A m \in GuardIds : m < n => \E g \in guards : g.id = m

\* VecGet with an off-by-one bound (index <= len), reading the last element.
VecGet_OffByOne(v, index) ==
    IF index < Len(v) THEN <<v[index + 1]>>
    ELSE IF index = Len(v) /\ Len(v) > 0 THEN <<v[Len(v)]>>
    ELSE <<>>

\* slice::get: Some(v[index]) as <<v[index]>>, None as <<>>.
VecGet(v, index) == IF index < Len(v) THEN <<v[index + 1]>> ELSE <<>>

\* VecPop taking the element from the wrong end.
VecPop_Front(v) == IF v = <<>> THEN v ELSE Tail(v)

\* Vec::push and Vec::pop (the vector left behind).
VecPush(v, x) == Append(v, x)
VecPop(v) == IF v = <<>> THEN v ELSE SubSeq(v, 1, Len(v) - 1)

\* An increment and a decrement that are lost.
Increment_Lost(c) == c
Decrement_Lost(c) == c

\* cell_update with |c| c + 1 and |c| c - 1.
Increment(c) == c + 1
Decrement(c) == c - 1

\* The aliasing checks with the wrong comparison: get as strict as get_mut,
\* get_mut as lax as get, try_iter looking for more than one exclusive borrow.
GetAliasing_Strict(borrow) == borrow # "None"
GetMutAliasing_Lax(borrow) == borrow = "Mutable"
TryIterAliasing_Lax(count) == count > 1

\* The aliasing checks of get, get_mut and try_iter.
GetAliasing(borrow) == borrow = "Mutable"
GetMutAliasing(borrow) == borrow # "None"
TryIterAliasing(count) == count # 0

\* Drop for Ref resetting the borrow state whatever the count, as Drop for
\* RefMut does.
RefDropResets_Always(new_count) == TRUE

\* Drop for Ref resets the borrow state only on this condition.
RefDropResets(new_count) == new_count = 0

\* FromIterator::from_iter (VecCell::new and with_capacity are the empty case).
Init ==
    /\ elems \in SeqUpTo(Values, MaxLen)
    /\ borrows = [k \in 1..Len(elems) |-> "None"]
    /\ immutable_borrow_count = 0
    /\ mutable_borrow_count = 0
    /\ guards = {}
    /\ ret = Return("from_iter", 0, "Ok", <<>>, 0)

\* VecCell::push takes &mut self: no guard borrowed from the VecCell is alive.
Push(v) ==
    /\ guards = {}
    /\ Len(elems) < MaxLen
    /\ elems' = VecPush(elems, v)
    /\ borrows' = VecPush(borrows, "None")
    /\ ret' = Return("push", 0, "Ok", <<v>>, 0)
    /\ UNCHANGED <<immutable_borrow_count, mutable_borrow_count, guards>>

\* pop leaving the borrow state of the removed element behind.
Pop_KeepsBorrows ==
    /\ guards = {}
    /\ elems' = VecPop(elems)
    /\ ret' = IF elems = <<>>
              THEN Return("pop", 0, "None", <<>>, 0)
              ELSE Return("pop", 0, "Some", <<elems[Len(elems)]>>, 0)
    /\ UNCHANGED <<borrows, immutable_borrow_count, mutable_borrow_count, guards>>

\* pop taking &self, so that it runs while guards are alive.
Pop_SharedSelf ==
    /\ borrows' = VecPop(borrows)
    /\ elems' = VecPop(elems)
    /\ ret' = IF elems = <<>>
              THEN Return("pop", 0, "None", <<>>, 0)
              ELSE Return("pop", 0, "Some", <<elems[Len(elems)]>>, 0)
    /\ UNCHANGED <<immutable_borrow_count, mutable_borrow_count, guards>>

\* VecCell::pop takes &mut self as well.
Pop ==
    /\ guards = {}
    /\ borrows' = VecPop(borrows)
    /\ elems' = VecPop(elems)
    /\ ret' = IF elems = <<>>
              THEN Return("pop", 0, "None", <<>>, 0)
              ELSE Return("pop", 0, "Some", <<elems[Len(elems)]>>, 0)
    /\ UNCHANGED <<immutable_borrow_count, mutable_borrow_count, guards>>

\* VecCell::get
Get(index) ==
    LET borrow == VecGet(borrows, index) IN
    IF borrow = <<>> THEN
        /\ ret' = Return("get", index, "OutOfBounds", <<>>, 0)
        /\ UNCHANGED cell
    ELSE IF GetAliasing(borrow[1]) THEN
        /\ ret' = Return("get", index, "Aliasing", <<>>, 0)
        /\ UNCHANGED cell
    ELSE
        /\ Cardinality(guards) < MaxGuards
        /\ borrows' = [borrows EXCEPT ![index + 1] = "Immutable"]
        /\ immutable_borrow_count' = Increment(immutable_borrow_count)
        /\ guards' = guards \cup {Guard(FreshId, "Ref", index)}
        /\ ret' = Return("get", index, "Ok", <<>>, FreshId)
        /\ UNCHANGED <<elems, mutable_borrow_count>>

\* get_mut counting the borrow before it checks for aliasing.
GetMut_CountsFirst(index) ==
    LET borrow == VecGet(borrows, index) IN
    IF borrow = <<>> THEN
        /\ ret' = Return("get_mut", index, "OutOfBounds", <<>>, 0)
        /\ UNCHANGED cell
    ELSE IF GetMutAliasing(borrow[1]) THEN
        /\ mutable_borrow_count < MaxGuards
        /\ mutable_borrow_count' = Increment(mutable_borrow_count)
        /\ ret' = Return("get_mut", index, "Aliasing", <<>>, 0)
        /\ UNCHANGED <<elems, borrows, immutable_borrow_count, guards>>
    ELSE
        /\ Cardinality(guards) < MaxGuards
        /\ borrows' = [borrows EXCEPT ![index + 1] = "Mutable"]
        /\ mutable_borrow_count' = Increment(mutable_borrow_count)
        /\ guards' = guards \cup {Guard(FreshId, "RefMut", index)}
        /\ ret' = Return("get_mut", index, "Ok", <<>>, FreshId)
        /\ UNCHANGED <<elems, immutable_borrow_count>>

\* VecCell::get_mut
GetMut(index) ==
    LET borrow == VecGet(borrows, index) IN
    IF borrow = <<>> THEN
        /\ ret' = Return("get_mut", index, "OutOfBounds", <<>>, 0)
        /\ UNCHANGED cell
    ELSE IF GetMutAliasing(borrow[1]) THEN
        /\ ret' = Return("get_mut", index, "Aliasing", <<>>, 0)
        /\ UNCHANGED cell
    ELSE
        /\ Cardinality(guards) < MaxGuards
        /\ borrows' = [borrows EXCEPT ![index + 1] = "Mutable"]
        /\ mutable_borrow_count' = Increment(mutable_borrow_count)
        /\ guards' = guards \cup {Guard(FreshId, "RefMut", index)}
        /\ ret' = Return("get_mut", index, "Ok", <<>>, FreshId)
        /\ UNCHANGED <<elems, immutable_borrow_count>>

\* try_iter draining the vector instead of borrowing its elements.
TryIter_Drains ==
    /\ ret' = IF TryIterAliasing(mutable_borrow_count)
              THEN Return("try_iter", 0, "Aliasing", <<>>, 0)
              ELSE Return("try_iter", 0, "Ok", elems, 0)
    /\ elems' = IF TryIterAliasing(mutable_borrow_count) THEN elems ELSE <<>>
    /\ UNCHANGED <<borrows, immutable_borrow_count, mutable_borrow_count, guards>>

\* VecCell::try_iter; the iterator yields the elements in order.
TryIter ==
    /\ ret' = IF TryIterAliasing(mutable_borrow_count)
              THEN Return("try_iter", 0, "Aliasing", <<>>, 0)
              ELSE Return("try_iter", 0, "Ok", elems, 0)
    /\ UNCHANGED cell

\* IntoIterator for &mut VecCell (iter_mut): a write through the iterator,
\* which borrows the whole VecCell mutably.
IterMutWrite(index, v) ==
    /\ guards = {}
    /\ index < Len(elems)
    /\ elems' = [elems EXCEPT ![index + 1] = v]
    /\ ret' = Return("iter_mut", index, "Ok", <<>>, 0)
    /\ UNCHANGED <<borrows, immutable_borrow_count, mutable_borrow_count, guards>>

\* UnsafeRef::deref: get_unchecked is undefined behaviour out of bounds, where
\* any value may be read.
UnsafeDeref(index) == IF index < Len(elems) THEN {elems[index + 1]} ELSE Values

\* UnsafeRef::deref_mut followed by a store of v: out of bounds the store may
\* land anywhere.
UnsafeDerefMut(index, v) ==
    IF index < Len(elems)
    THEN {[elems EXCEPT ![index + 1] = v]}
    ELSE [1..Len(elems) -> Values]

\* Deref for Ref and for RefMut: read the element of a guard.
Deref(g) ==
    /\ g \in guards
    /\ \E x \in UnsafeDeref(g.index) :
        ret' = Return("deref", g.index, "Ok", <<x>>, g.id)
    /\ UNCHANGED cell

\* DerefMut for RefMut: write v to the element of an exclusive guard.
DerefMut(g, v) ==
    /\ g \in guards
    /\ g.kind = "RefMut"
    /\ elems' \in UnsafeDerefMut(g.index, v)
    /\ ret' = Return("deref_mut", g.index, "Ok", <<v>>, g.id)
    /\ UNCHANGED <<borrows, immutable_borrow_count, mutable_borrow_count, guards>>

\* Drop for Ref
DropRef(g) ==
    /\ g \in guards
    /\ g.kind = "Ref"
    /\ LET new_count == Decrement(immutable_borrow_count) IN
        /\ immutable_borrow_count' = new_count
        /\ borrows' = IF RefDropResets(new_count)
                      THEN [borrows EXCEPT ![g.index + 1] = "None"]
                      ELSE borrows
    /\ guards' = guards \ {g}
    /\ ret' = Return("drop", g.index, "Ok", <<>>, g.id)
    /\ UNCHANGED <<elems, mutable_borrow_count>>

\* Drop for RefMut resetting the borrow state only when the count reaches 0, as
\* Drop for Ref does.
DropRefMut_Conditional(g) ==
    /\ g \in guards
    /\ g.kind = "RefMut"
    /\ LET new_count == Decrement(mutable_borrow_count) IN
        /\ mutable_borrow_count' = new_count
        /\ borrows' = IF new_count = 0
                      THEN [borrows EXCEPT ![g.index + 1] = "None"]
                      ELSE borrows
    /\ guards' = guards \ {g}
    /\ ret' = Return("drop_mut", g.index, "Ok", <<>>, g.id)
    /\ UNCHANGED <<elems, immutable_borrow_count>>

\* Drop for RefMut
DropRefMut(g) ==
    /\ g \in guards
    /\ g.kind = "RefMut"
    /\ mutable_borrow_count' = Decrement(mutable_borrow_count)
    /\ borrows' = [borrows EXCEPT ![g.index + 1] = "None"]
    /\ guards' = guards \ {g}
    /\ ret' = Return("drop_mut", g.index, "Ok", <<>>, g.id)
    /\ UNCHANGED <<elems, immutable_borrow_count>>

Next ==
    \/ \E v \in Values : Push(v)
    \/ Pop
    \/ \E index \in Indices : Get(index)
    \/ \E index \in Indices : GetMut(index)
    \/ TryIter
    \/ \E index \in Indices, v \in Values : IterMutWrite(index, v)
    \/ \E g \in guards : Deref(g)
    \/ \E g \in guards, v \in Values : DerefMut(g, v)
    \/ \E g \in guards : DropRef(g)
    \/ \E g \in guards : DropRefMut(g)

Spec == Init /\ [][Next]_vars

\* ---- helpers of the properties ----

\* The guards alive on an index, of one kind and of any kind.
GuardsOn(gs, kind, index) == {g \in gs : g.kind = kind /\ g.index = index}
AnyGuardsOn(gs, index) == {g \in gs : g.index = index}

TypeOK ==
    /\ elems \in SeqUpTo(Values, MaxLen)
    /\ borrows \in SeqUpTo(BorrowState, MaxLen)
    /\ immutable_borrow_count \in 0..MaxGuards
    /\ mutable_borrow_count \in 0..MaxGuards
    /\ \A g \in guards : g.id \in GuardIds /\ g.kind \in {"Ref", "RefMut"} /\ g.index \in Indices

\* ---- C1 ----
\* C1: whenever the borrow state of an index is Mutable, exactly one exclusive
\* guard on that index is alive and no shared guard on it is; an exclusive
\* guard never shares its index with any other guard.
ExclusiveIsAlone ==
    /\ \A i \in 0..(Len(borrows) - 1) :
        borrows[i + 1] = "Mutable" =>
            /\ Cardinality(GuardsOn(guards, "RefMut", i)) = 1
            /\ GuardsOn(guards, "Ref", i) = {}
    /\ \A g \in guards :
        g.kind = "RefMut" => AnyGuardsOn(guards, g.index) = {g}

\* An exclusive guard on one index next to a shared guard and a second
\* exclusive guard on other indices.
ExclusiveIsAloneWitness ==
    /\ Len(borrows) = 2
    /\ borrows[1] = "Mutable"
    /\ GuardsOn(guards, "RefMut", 0) # {}
    /\ AnyGuardsOn(guards, 1) # {}
    /\ ret.op \in {"get", "get_mut"}
    /\ ret.index = 0
    /\ ret.result = "Aliasing"

\* ---- C2 ----
\* C2: get_mut on an in-bounds index on which a shared or an exclusive guard
\* is alive fails with Aliasing and hands out no guard.
GetMutOnBorrowedFails ==
    [][(/\ ret'.op = "get_mut"
        /\ ret'.index < Len(elems)
        /\ AnyGuardsOn(guards, ret'.index) # {})
       => (/\ ret'.result = "Aliasing"
           /\ ret'.guard = 0
           /\ guards' = guards)]_vars

\* get_mut has just failed on an index held by a shared guard, after a guard
\* on the other index was taken.
GetMutOnBorrowedFailsWitness ==
    /\ ret.op = "get_mut"
    /\ ret.result = "Aliasing"
    /\ GuardsOn(guards, "Ref", ret.index) # {}
    /\ \E g \in guards : g.index # ret.index

\* ---- C3 ----
\* C3: dropping a guard that was the only guard alive on its index leaves the
\* borrow state of that index None, whatever guards are alive elsewhere.
ReleaseOfSoleGuardFrees ==
    [][\A g \in guards :
        (/\ ret'.op \in {"drop", "drop_mut"}
         /\ guards' = guards \ {g}
         /\ AnyGuardsOn(guards, g.index) = {g})
        => borrows'[g.index + 1] = "None"]_vars

\* ---- C4 ----
\* C4: for in-bounds indices i # j on which no guard is alive, get_mut(i) and
\* then get_mut(j) both succeed, i.e. get_mut succeeds on an unguarded index
\* when the other index is unguarded (the first call) or holds nothing but one
\* exclusive guard (the second call), and the guard handed out is alive with
\* the ones before; a store through an exclusive guard changes its own element
\* and no other.
DisjointGetMutSucceeds ==
    [][/\ (/\ ret'.op = "get_mut"
           /\ ret'.index < Len(elems)
           /\ AnyGuardsOn(guards, ret'.index) = {}
           /\ \E j \in 0..(Len(elems) - 1) :
               /\ j # ret'.index
               /\ GuardsOn(guards, "Ref", j) = {}
               /\ Cardinality(GuardsOn(guards, "RefMut", j)) <= 1)
          => (/\ ret'.result = "Ok"
              /\ guards' = guards \cup {Guard(ret'.guard, "RefMut", ret'.index)})
       /\ ret'.op = "deref_mut"
          => (/\ Len(elems') = Len(elems)
              /\ elems'[ret'.index + 1] = ret'.yield[1]
              /\ \A k \in 1..Len(elems) :
                  k # ret'.index + 1 => elems'[k] = elems[k])]_vars

\* ---- C5 ----
\* C5: try_iter fails with Aliasing exactly when some exclusive guard is alive,
\* on whatever index; otherwise it succeeds and yields the elements in order.
TryIterFailsIffExclusive ==
    [][ret'.op = "try_iter"
       => (/\ ret'.result \in {"Ok", "Aliasing"}
           /\ ret'.result = "Aliasing" <=> (\E g \in guards : g.kind = "RefMut")
           /\ ret'.result = "Ok" => ret'.yield = elems
           /\ UNCHANGED elems)]_vars

\* try_iter has yielded [1, 2] with a shared guard alive and no exclusive one.
TryIterFailsIffExclusiveWitness ==
    /\ ret.op = "try_iter"
    /\ ret.result = "Ok"
    /\ ret.yield = <<1, 2>>
    /\ elems = <<1, 2>>
    /\ guards # {}

\* ---- C6 ----
\* C6: get and get_mut on an index at or past the length fail with OutOfBounds,
\* hand out no guard and change nothing of the VecCell.
OutOfBoundsFails ==
    [][(ret'.op \in {"get", "get_mut"} /\ ret'.index >= Len(elems))
       => (/\ ret'.result = "OutOfBounds"
           /\ ret'.guard = 0
           /\ UNCHANGED cell)]_vars

\* get or get_mut has failed with OutOfBounds on the index equal to the length
\* of a non-empty VecCell with guards alive.
OutOfBoundsFailsWitness ==
    /\ ret.op \in {"get", "get_mut"}
    /\ ret.result = "OutOfBounds"
    /\ ret.index = Len(elems)
    /\ guards # {}

\* ---- C7 ----
\* C7: a get, get_mut or try_iter that fails with Aliasing changes no borrow
\* state, neither counter, no element and no guard.
AliasingLeavesStateUnchanged ==
    [][ret'.result = "Aliasing"
       => (/\ ret'.op \in {"get", "get_mut", "try_iter"}
           /\ UNCHANGED cell)]_vars

\* get_mut has failed with Aliasing while both kinds of guards are alive.
AliasingLeavesStateUnchangedWitness ==
    /\ ret.op = "get_mut"
    /\ ret.result = "Aliasing"
    /\ immutable_borrow_count > 0
    /\ mutable_borrow_count > 0

\* ---- C8 ----
\* C8 as stated: no two shared guards on the same index are alive at once.
NoTwoSharedOnSameIndex ==
    \A g \in guards, h \in guards :
        (g.kind = "Ref" /\ h.kind = "Ref" /\ g.index = h.index) => g = h

\* C8 as amended: shared guards on the same index do coexist; a get on an index
\* on which a shared guard is alive succeeds and leaves one more shared guard
\* alive on that index, and no exclusive guard is alive on it.
SharedOnSameIndexCoexist ==
    [][(/\ ret'.op = "get"
        /\ ret'.index < Len(elems)
        /\ GuardsOn(guards, "Ref", ret'.index) # {})
       => (/\ ret'.result = "Ok"
           /\ guards \subseteq guards'
           /\ Cardinality(GuardsOn(guards', "Ref", ret'.index))
               = Cardinality(GuardsOn(guards, "Ref", ret'.index)) + 1
           /\ GuardsOn(guards', "RefMut", ret'.index) = {})]_vars

\* get has just handed out a second shared guard on the index of a first.
SharedOnSameIndexCoexistWitness ==
    /\ ret.op = "get"
    /\ ret.result = "Ok"
    /\ Cardinality(GuardsOn(guards, "Ref", ret.index)) = 2

\* ---- C9 ----
\* C9: get on an in-bounds index fails with Aliasing exactly when the borrow
\* state of the index is Mutable; otherwise it sets that state to Immutable,
\* adds one to immutable_borrow_count, leaves mutable_borrow_count, the other
\* borrow states and the elements alone, and hands out a new shared guard that
\* records the index.
GetContract ==
    [][(ret'.op = "get" /\ ret'.index < Len(elems))
       => LET i == ret'.index IN
          IF borrows[i + 1] = "Mutable"
          THEN ret'.result = "Aliasing"
          ELSE /\ ret'.result = "Ok"
               /\ borrows' = [borrows EXCEPT ![i + 1] = "Immutable"]
               /\ immutable_borrow_count' = immutable_borrow_count + 1
               /\ UNCHANGED <<mutable_borrow_count, elems>>
               /\ Guard(ret'.guard, "Ref", i) \notin guards
               /\ guards' = guards \cup {Guard(ret'.guard, "Ref", i)}]_vars

\* get has succeeded on an index whose borrow state was None while another
\* index is borrowed exclusively.
GetContractWitness ==
    /\ ret.op = "get"
    /\ ret.result = "Ok"
    /\ immutable_borrow_count = 1
    /\ mutable_borrow_count = 1
    /\ borrows[ret.index + 1] = "Immutable"

\* ---- C10 ----
\* C10: push appends the value as the last element with a None borrow state;
\* pop removes the last element and its borrow state and returns the element,
\* or returns None and changes nothing when there is no element.
PushPopIsStack ==
    [][/\ ret'.op = "push"
          => (/\ elems' = elems \o ret'.yield
              /\ Len(ret'.yield) = 1
              /\ borrows' = borrows \o <<"None">>
              /\ UNCHANGED <<immutable_borrow_count, mutable_borrow_count, guards>>)
       /\ ret'.op = "pop"
          => IF elems = <<>>
             THEN ret'.result = "None" /\ ret'.yield = <<>> /\ UNCHANGED cell
             ELSE /\ ret'.result = "Some"
                  /\ elems = elems' \o ret'.yield
                  /\ Len(ret'.yield) = 1
                  /\ borrows' = SubSeq(borrows, 1, Len(borrows) - 1)
                  /\ Len(borrows') = Len(elems')
                  /\ UNCHANGED <<immutable_borrow_count, mutable_borrow_count, guards>>]_vars

\* pop has returned the element pushed second and left the one pushed first.
PushPopIsStackWitness ==
    /\ ret.op = "pop"
    /\ ret.result = "Some"
    /\ ret.yield = <<2>>
    /\ elems = <<1>>
    /\ borrows = <<"None">>

\* ---- C11 ----
\* C11: while a shared guard on an index is alive, the borrow state of that
\* index is Immutable: dropping a shared guard never frees an index on which
\* another shared guard is alive.
SharedGuardKeepsImmutable ==
    \A g \in guards :
        g.kind = "Ref" =>
            /\ g.index < Len(borrows)
            /\ borrows[g.index + 1] = "Immutable"

\* A shared guard has been dropped while a shared guard on another index
\* stays alive.
SharedGuardKeepsImmutableWitness ==
    /\ ret.op = "drop"
    /\ GuardsOn(guards, "Ref", ret.index) = {}
    /\ \E g \in guards : g.kind = "Ref" /\ g.index # ret.index

\* ---- C12 ----
\* C12: mutable_borrow_count is the number of indices whose borrow state is
\* Mutable, which is the number of exclusive guards alive.
MutableIndices == {i \in 0..(Len(borrows) - 1) : borrows[i + 1] = "Mutable"}

MutableCountIsExact ==
    /\ mutable_borrow_count = Cardinality(MutableIndices)
    /\ mutable_borrow_count = Cardinality({g \in guards : g.kind = "RefMut"})

\* One of two exclusive guards has been dropped, the other is alive.
MutableCountIsExactWitness ==
    /\ ret.op = "drop_mut"
    /\ mutable_borrow_count = 1
    /\ \E g \in guards : g.kind = "RefMut" /\ g.index # ret.index

\* ---- C13 ----
\* C13: immutable_borrow_count is the number of shared guards alive, each
\* guard counted once, also when several are on the same index.
ImmutableCountIsExact ==
    immutable_borrow_count = Cardinality({g \in guards : g.kind = "Ref"})

\* Two shared guards on one index are alive.
ImmutableCountIsExactWitness ==
    /\ immutable_borrow_count = 2
    /\ \E i \in 0..(Len(borrows) - 1) : Cardinality(GuardsOn(guards, "Ref", i)) = 2

\* ---- C14 ----
\* C14: when no guard is alive, both counters are 0 and the borrow state of
\* every index is None.
NoGuardMeansAllFree ==
    guards = {} =>
        /\ immutable_borrow_count = 0
        /\ mutable_borrow_count = 0
        /\ \A k \in 1..Len(borrows) : borrows[k] = "None"

\* ---- C15 ----
\* C15: dropping a shared guard on an index subtracts exactly one from
\* immutable_borrow_count and sets the borrow state of the index to None if
\* the new count is 0, leaving it as it was otherwise; mutable_borrow_count,
\* the borrow states of the other indices and the elements stay as they were.
DropRefContract ==
    [][ret'.op = "drop"
       => LET i == ret'.index IN
          /\ Guard(ret'.guard, "Ref", i) \in guards
          /\ guards' = guards \ {Guard(ret'.guard, "Ref", i)}
          /\ immutable_borrow_count' = immutable_borrow_count - 1
          /\ borrows' = IF immutable_borrow_count' = 0
                        THEN [borrows EXCEPT ![i + 1] = "None"]
                        ELSE borrows
          /\ immutable_borrow_count' = 0 => borrows'[i + 1] = "None"
          /\ UNCHANGED <<mutable_borrow_count, elems>>]_vars

\* A shared guard has been dropped with another shared guard alive: the count
\* is 1 and the index of the dropped guard is still Immutable.
DropRefContractWitness ==
    /\ ret.op = "drop"
    /\ immutable_borrow_count = 1
    /\ borrows[ret.index + 1] = "Immutable"

\* ---- C16 ----
\* C16: dropping an exclusive guard on an index subtracts exactly one from
\* mutable_borrow_count and sets the borrow state of the index to None
\* whatever the count; immutable_borrow_count, the borrow states of the other
\* indices (so those of the shared guards alive there) and the elements stay
\* as they were.
DropRefMutContract ==
    [][ret'.op = "drop_mut"
       => LET i == ret'.index IN
          /\ Guard(ret'.guard, "RefMut", i) \in guards
          /\ guards' = guards \ {Guard(ret'.guard, "RefMut", i)}
          /\ mutable_borrow_count' = mutable_borrow_count - 1
          /\ borrows' = [borrows EXCEPT ![i + 1] = "None"]
          /\ borrows'[i + 1] = "None"
          /\ UNCHANGED <<immutable_borrow_count, elems>>
          /\ \A g \in guards' : g.kind = "Ref" => borrows'[g.index + 1] = "Immutable"]_vars

\* An exclusive guard has been dropped while a shared guard on another index
\* is alive: the index of the dropped guard is None, the other one Immutable.
DropRefMutContractWitness ==
    /\ ret.op = "drop_mut"
    /\ borrows[ret.index + 1] = "None"
    /\ immutable_borrow_count = 1
    /\ \E g \in guards :
        g.kind = "Ref" /\ g.index # ret.index /\ borrows[g.index + 1] = "Immutable"

\* ---- C17 ----
\* C17: after construction and after every call, borrows has as many entries
\* as elems has elements; the entries made by construction and by push are
\* None.
BorrowsAlignedWithElems ==
    /\ \A k \in 1..Len(borrows) : borrows[k] = "None"
    /\ [](Len(borrows) = Len(elems))
    /\ [][ret'.op = "push"
          => (/\ Len(borrows') = Len(borrows) + 1
              /\ borrows'[Len(borrows')] = "None")]_vars

\* push has added a None entry next to an entry that is not None.
BorrowsAlignedWithElemsWitness ==
    /\ ret.op = "push"
    /\ Len(elems) = 2
    /\ borrows = <<"Immutable", "None">>

\* ---- C18 ----
\* C18 as stated: get, get_mut, try_iter and the drop of a guard leave the
\* elements as they are, and the elements change only by a store through an
\* exclusive guard, by push or by pop.
OnlyGuardStorePushPopChangeElems ==
    [][/\ ret'.op \in {"get", "get_mut", "try_iter", "drop", "drop_mut"}
          => elems' = elems
       /\ elems' # elems => ret'.op \in {"deref_mut", "push", "pop"}]_vars

\* C18 as amended: get, get_mut, try_iter and the drop of a guard leave the
\* elements as they are, and the elements change only by a store through an
\* exclusive guard, by a store through the iterator of &mut VecCell
\* (iter_mut), by push or by pop.
OnlyStoresPushPopChangeElems ==
    [][/\ ret'.op \in {"get", "get_mut", "try_iter", "drop", "drop_mut"}
          => elems' = elems
       /\ elems' # elems => ret'.op \in {"deref_mut", "iter_mut", "push", "pop"}]_vars

\* try_iter has failed next to an exclusive guard through which the element
\* was changed, the other element being as built.
OnlyStoresPushPopChangeElemsWitness ==
    /\ ret.op = "try_iter"
    /\ ret.result = "Aliasing"
    /\ elems = <<2, 1>>
    /\ mutable_borrow_count = 1

\* ---- C19 ----
\* C19: the index of every guard alive is below the length of elems and of
\* borrows, and push and pop run only when no guard is alive, so that the
\* unchecked accesses of deref and drop are in bounds.
GuardsStayInBounds ==
    /\ [](\A g \in guards : g.index < Len(elems) /\ g.index < Len(borrows))
    /\ [][ret'.op \in {"push", "pop"} => (guards = {} /\ guards' = {})]_vars

\* A guard on the last index has been dereferenced, and has read the last
\* element, while two guards are alive.
GuardsStayInBoundsWitness ==
    /\ ret.op = "deref"
    /\ ret.index = Len(elems) - 1
    /\ ret.index = 1
    /\ ret.yield = <<elems[ret.index + 1]>>
    /\ Cardinality(guards) = 2

\* ---- C20 ----
\* C20: a counter is at least 1 whenever a drop subtracts one from it, so both
\* counters stay at or above 0.
CountersNeverUnderflow ==
    [][/\ ret'.op = "drop" => immutable_borrow_count >= 1
       /\ ret'.op = "drop_mut" => mutable_borrow_count >= 1
       /\ immutable_borrow_count' >= 0
       /\ mutable_borrow_count' >= 0]_vars

\* The last shared guard has been dropped, taking its counter from 1 to 0,
\* while an exclusive guard is alive.
CountersNeverUnderflowWitness ==
    /\ ret.op = "drop"
    /\ immutable_borrow_count = 0
    /\ mutable_borrow_count = 1

====
